---- MODULE Spec2Model ----
(***************************************************************************)
(* Model of tasks/seal/task_sdr.go: the SDR task of the sealing pipeline.  *)
(*                                                                         *)
(*   Spec        SDRTask.Do attempts interleaving on the                   *)
(*               sectors_sdr_pipeline table, with the scheduler, the chain *)
(*               and the store as environment                              *)
(*   SpecLayout  the piece layout of Do (lines 109-155) as a function of   *)
(*               the piece rows and the proof type                         *)
(*   SpecAccept  SDRTask.CanAccept                                         *)
(***************************************************************************)
EXTENDS Integers, Sequences, FiniteSets, TLC

VARIABLES
    rows,        \* sectors_sdr_pipeline: sector -> row
    pieceRows,   \* sectors_sdr_initial_pieces: sector -> set of piece rows
    head,        \* the chain head seen by SDRAPI.ChainHead
    att,         \* the Do invocations: attempt -> locals of Do
    owned,       \* what stillOwned() returns for each attempt
    calls,       \* history: the external calls each attempt has issued
    encoded,     \* the sealing storage: sector -> arguments of the last
                 \* GenerateSDR call that succeeded for it
    lproof,      \* SpecLayout: reg_seal_proof of the sector
    lpieces,     \* SpecLayout: piece rows of the sector
    lout,        \* SpecLayout: outcome of the layout
    ids,         \* SpecAccept: argument of CanAccept
    accepted,    \* SpecAccept: outcome of CanAccept
    IsDevnet,    \* SpecDetails: the package variable IsDevnet
    tasks,       \* SpecDetails: the SDRTask values NewSDRTask has returned
    details      \* SpecDetails: what TypeDetails returned last, per task

doVars     == <<rows, pieceRows, head, att, owned, calls, encoded>>
layoutVars == <<lproof, lpieces, lout>>
acceptVars == <<ids, accepted>>
detailsVars == <<IsDevnet, tasks, details>>
otherVars  == <<lproof, lpieces, lout, ids, accepted, IsDevnet, tasks, details>>
vars       == <<rows, pieceRows, head, att, owned, calls, encoded,
                lproof, lpieces, lout, ids, accepted, IsDevnet, tasks, details>>

\* a nullable column or pointer: Null, or Some(v)
Null == <<>>
Some(v) == <<v>>

(***************************************************************************)
(* Bounds of the model.                                                    *)
(***************************************************************************)
MaxPieces   == 3    \* piece rows per sector in SpecLayout
MaxIndex    == 2    \* largest piece_index in SpecLayout
MaxIds      == 4    \* length of the candidate list given to CanAccept
NumTaskIDs  == 2    \* harmony task ids
NumAttempts == 2    \* Do invocations
NumSectors  == 2    \* rows of sectors_sdr_pipeline
MaxHeight   == 902  \* the chain stops growing at this height

(***************************************************************************)
(* Unsigned 64-bit arithmetic.  abi.UnpaddedPieceSize and                  *)
(* abi.PaddedPieceSize are uint64.  The checker's integers are 32 bits     *)
(* wide, so the modulus is 2^29: like 2^64 it is congruent to 2 modulo     *)
(* 127, and it is far above every size of the model, so a subtraction      *)
(* wraps exactly when it wraps in 64 bits and the wrapped value has the    *)
(* same residue modulo 127 and the same low bits.                          *)
(***************************************************************************)
UintMod == 536870912

U64(x) == x % UintMod

\* abi.UnpaddedPieceSize.Padded: s + s/127
Padded(s) == U64(s + (s \div 127))

\* abi.PaddedPieceSize.Unpadded: s - s/128
Unpadded(s) == U64(s - (s \div 128))

RECURSIVE TrailingZeros(_)
\* bits.TrailingZeros64 of a non-zero value
TrailingZeros(x) == IF x % 2 = 1 THEN 0 ELSE 1 + TrailingZeros(x \div 2)

RECURSIVE Pow2(_)
Pow2(n) == IF n = 0 THEN 1 ELSE 2 * Pow2(n - 1)

RECURSIVE BitsAscending(_)
\* the set bits of x as powers of two, lowest first: the loop
\* "next := TrailingZeros64(toFill); psize := 1 << next; toFill ^= psize"
BitsAscending(x) ==
    IF x = 0 THEN <<>>
    ELSE LET psize == Pow2(TrailingZeros(x))
         IN  <<psize>> \o BitsAscending(x - psize)

RECURSIVE Reverse(_)
Reverse(s) == IF s = <<>> THEN <<>> ELSE Reverse(Tail(s)) \o <<Head(s)>>

IsPow2(x) == x > 0 /\ Pow2(TrailingZeros(x)) = x

RECURSIVE SumSizes(_)
\* total padded size of a piece-info sequence
SumSizes(infos) ==
    IF infos = <<>> THEN 0 ELSE Head(infos).Size + SumSizes(Tail(infos))

RECURSIVE Pow2Mod(_, _)
\* 2^n modulo m, by doubling
Pow2Mod(n, m) == IF n = 0 THEN 1 % m ELSE (2 * Pow2Mod(n - 1, m)) % m

(***************************************************************************)
(* ffiwrapper.GetRequiredPadding(oldLength, newPieceLength):               *)
(*   toFill := uint64(-oldLength % newPieceLength), then one pad per set   *)
(*   bit, lowest first; returns the pads and their sum.                    *)
(* -oldLength is 2^64 - oldLength for a non-zero oldLength; its residue    *)
(* is computed here from the residue of 2^64, so that it is the 64-bit     *)
(* value also when newPieceLength is not a power of two.                   *)
(***************************************************************************)
GetRequiredPadding(oldLength, newPieceLength) ==
    LET toFill == IF oldLength = 0 THEN 0
                  ELSE (Pow2Mod(64, newPieceLength)
                          + newPieceLength - (oldLength % newPieceLength))
                       % newPieceLength
    IN  [pads |-> BitsAscending(toFill), padLength |-> toFill]

(***************************************************************************)
(* filler.FillersFromRem (lib/filler, not among the sources): from 4.1     *)
(* step 4 of the specification.  The remainder is decomposed into powers   *)
(* of two from the largest downward; it fails when the remainder is not    *)
(* representable exactly: negative (the sign bit of the unsigned argument  *)
(* is set) or not aligned (no padded size has this unpadded size).         *)
(***************************************************************************)
FillersFromRem(in) ==
    IF in >= UintMod \div 2 \/ in % 127 # 0
    THEN [err |-> TRUE, fillers |-> <<>>]
    ELSE LET bs == Reverse(BitsAscending(Padded(in)))
         IN  [err |-> FALSE,
              fillers |-> [i \in 1..Len(bs) |-> Unpadded(bs[i])]]

\* zerocomm.ZeroPieceCommitment(sz): the well-known commitment of a filler
\* of unpadded size sz, a function of the size alone
ZeroPieceCommitment(sz) == <<"zerocomm", sz>>

(***************************************************************************)
(* abi.RegisteredSealProof.SectorSize: the capacity of the proof type, or  *)
(* an error for a proof type that is not registered.                       *)
(***************************************************************************)
ProofTypes == {"StackedDrg2KiBV1", "StackedDrg8MiBV1", "Unregistered"}

SectorSizeErr(proof) == proof \notin {"StackedDrg2KiBV1", "StackedDrg8MiBV1"}

SectorSize(proof) ==
    IF proof = "StackedDrg2KiBV1" THEN 2048
    ELSE IF proof = "StackedDrg8MiBV1" THEN 8388608
    ELSE 0

(***************************************************************************)
(* Piece rows.  piece_cid is a string that cid.Parse accepts or rejects;   *)
(* data_raw_size is a nullable column read into a *int64.                  *)
(***************************************************************************)
PieceCIDs  == {"baga6ea4seaq", "baga6ea4seaqb", "notacid"}
CidParseErr(c) == c = "notacid"

PieceSizes == {128, 256, 384, 512, 1024, 2048}
RawSizes(size) == {Null, Some(100), Some(127), Some(Unpadded(size))}

PieceAttrs ==
    UNION {[piece_cid : PieceCIDs, piece_size : {sz}, data_raw_size : RawSizes(sz)]
           : sz \in PieceSizes}

PieceRow(i, f) ==
    [piece_index |-> i, piece_cid |-> f.piece_cid,
     piece_size |-> f.piece_size, data_raw_size |-> f.data_raw_size]

RECURSIVE OrderByPieceIndex(_)
\* SELECT ... ORDER BY piece_index ASC over a set of rows (piece_index is
\* part of the key of the table, so no two rows of a sector share it)
OrderByPieceIndex(S) ==
    IF S = {} THEN <<>>
    ELSE LET m == CHOOSE r \in S : \A q \in S : r.piece_index <= q.piece_index
         IN  <<m>> \o OrderByPieceIndex(S \ {m})

(***************************************************************************)
(* The loop of Do over the pieces (lines 115-136).  The state is the       *)
(* running unpadded offset, the piece infos emitted so far and the reason  *)
(* the loop stopped, if it did.                                            *)
(***************************************************************************)
PadInfos(pads) ==
    [i \in 1..Len(pads) |->
        [Size |-> pads[i], PieceCID |-> ZeroPieceCommitment(Unpadded(pads[i])),
         filler |-> TRUE, piece_index |-> -1]]

LayoutPiece(st, p) ==
    IF st.err # "" THEN st
    ELSE IF CidParseErr(p.piece_cid)
    THEN [st EXCEPT !.err = "parsing piece cid"]
    ELSE LET pad     == GetRequiredPadding(Padded(st.offset), p.piece_size)
             offset1 == U64(st.offset + Unpadded(pad.padLength))
             infos   == st.pieceInfos \o PadInfos(pad.pads)
                          \o <<[Size |-> p.piece_size, PieceCID |-> p.piece_cid,
                                filler |-> FALSE, piece_index |-> p.piece_index]>>
         IN  IF p.data_raw_size = Null
             THEN [offset |-> offset1, pieceInfos |-> infos,
                   err |-> "panic: nil pointer dereference"]
             ELSE [offset |-> U64(offset1 + p.data_raw_size[1]),
                   pieceInfos |-> infos, err |-> ""]

RECURSIVE LayoutLoop(_, _)
LayoutLoop(st, pieces) ==
    IF pieces = <<>> THEN st
    ELSE LayoutLoop(LayoutPiece(st, Head(pieces)), Tail(pieces))

FillerInfos(fillers) ==
    [i \in 1..Len(fillers) |->
        [Size |-> Padded(fillers[i]), PieceCID |-> ZeroPieceCommitment(fillers[i]),
         filler |-> TRUE, piece_index |-> -1]]

(***************************************************************************)
(* Lines 111-147 for a non-empty piece sequence: the loop, the remaining   *)
(* space "abi.PaddedPieceSize(ssize).Unpadded() - offset" in unsigned      *)
(* arithmetic, and the trailing fillers.                                   *)
(***************************************************************************)
PieceLayout(ssize, pieces) ==
    LET st  == LayoutLoop([offset |-> 0, pieceInfos |-> <<>>, err |-> ""], pieces)
        rem == U64(Unpadded(ssize) - st.offset)
        fil == FillersFromRem(rem)
    IN  IF st.err # ""
        THEN [err |-> st.err, offset |-> st.offset, rem |-> 0,
              pieceInfos |-> st.pieceInfos]
        ELSE IF fil.err
        THEN [err |-> "failed to calculate the final padding",
              offset |-> st.offset, rem |-> rem, pieceInfos |-> st.pieceInfos]
        ELSE [err |-> "", offset |-> st.offset, rem |-> rem,
              pieceInfos |-> st.pieceInfos \o FillerInfos(fil.fillers)]

\* abi.PieceInfo: the two fields the aggregation sees of an emitted entry
\* (filler and piece_index only record where the entry comes from)
PieceInfoOf(e) == [Size |-> e.Size, PieceCID |-> e.PieceCID]

RECURSIVE ReduceStack(_)
\* nonffi reduceStack: merge the two topmost frames while they have the
\* same size
ReduceStack(stack) ==
    IF Len(stack) >= 2 /\ stack[Len(stack)] = stack[Len(stack) - 1]
    THEN ReduceStack(Append(SubSeq(stack, 1, Len(stack) - 2), 2 * stack[Len(stack)]))
    ELSE stack

RECURSIVE PadTo(_, _)
\* "for stack[len(stack)-1].size < f.size": pad the top frame with a zero
\* frame of its size until the next piece fits
PadTo(stack, size) ==
    IF stack[Len(stack)] < size
    THEN PadTo(ReduceStack(Append(stack, stack[Len(stack)])), size)
    ELSE stack

RECURSIVE PushAll(_, _)
PushAll(stack, sizes) ==
    IF sizes = <<>> THEN stack
    ELSE PushAll(ReduceStack(Append(PadTo(stack, Head(sizes)), Head(sizes))),
                 Tail(sizes))

RECURSIVE PadToOne(_)
\* "for len(stack) > 1": pad until one frame is left
PadToOne(stack) ==
    IF Len(stack) > 1
    THEN PadToOne(ReduceStack(Append(stack, stack[Len(stack)])))
    ELSE stack

\* the size of the tree nonffi.GenerateUnsealedCID builds over the sizes
TreeSize(sizes) == PadToOne(PushAll(<<Head(sizes)>>, Tail(sizes)))[1]

(***************************************************************************)
(* nonffi.GenerateUnsealedCID(proof, pieceInfos), a function of its        *)
(* arguments.  It reports an error when a piece size is below 128, above   *)
(* the sector size or not a power of two, and when the tree over the       *)
(* pieces is larger than the sector; otherwise it returns the aggregate    *)
(* commitment of the proof type and the piece infos.                       *)
(***************************************************************************)
GenerateUnsealedCIDErr(proof, pieceInfos) ==
    \/ SectorSizeErr(proof)
    \/ pieceInfos = <<>>
    \/ \E i \in 1..Len(pieceInfos) :
          \/ pieceInfos[i].Size < 128
          \/ pieceInfos[i].Size > SectorSize(proof)
          \/ ~IsPow2(pieceInfos[i].Size)
    \/ TreeSize([i \in 1..Len(pieceInfos) |-> pieceInfos[i].Size]) > SectorSize(proof)

GenerateUnsealedCID(proof, pieceInfos) ==
    <<"commd", proof, [i \in 1..Len(pieceInfos) |-> PieceInfoOf(pieceInfos[i])]>>

(***************************************************************************)
(* Lines 104-155: sector size, layout, aggregation.                        *)
(***************************************************************************)
NoLayout == [err |-> "", offset |-> 0, rem |-> 0, pieceInfos |-> <<>>]

\* a commitment computation without the branch for the sector with no pieces
ComputeCommD_AlwaysAggregates(proof, pieces) ==
    IF SectorSizeErr(proof)
    THEN [err |-> "getting sector size", commd |-> Null, aggregated |-> FALSE,
          layout |-> NoLayout]
    ELSE LET lay == PieceLayout(SectorSize(proof), pieces)
         IN  IF lay.err # ""
             THEN [err |-> lay.err, commd |-> Null, aggregated |-> FALSE,
                   layout |-> lay]
             ELSE IF GenerateUnsealedCIDErr(proof, lay.pieceInfos)
             THEN [err |-> "computing CommD", commd |-> Null,
                   aggregated |-> TRUE, layout |-> lay]
             ELSE [err |-> "", commd |-> GenerateUnsealedCID(proof, lay.pieceInfos),
                   aggregated |-> TRUE, layout |-> lay]

ComputeCommD(proof, pieces) ==
    IF SectorSizeErr(proof)
    THEN [err |-> "getting sector size", commd |-> Null, aggregated |-> FALSE,
          layout |-> NoLayout]
    ELSE IF Len(pieces) > 0
    THEN LET lay == PieceLayout(SectorSize(proof), pieces)
         IN  IF lay.err # ""
             THEN [err |-> lay.err, commd |-> Null, aggregated |-> FALSE,
                   layout |-> lay]
             ELSE IF GenerateUnsealedCIDErr(proof, lay.pieceInfos)
             THEN [err |-> "computing CommD", commd |-> Null,
                   aggregated |-> TRUE, layout |-> lay]
             ELSE [err |-> "", commd |-> GenerateUnsealedCID(proof, lay.pieceInfos),
                   aggregated |-> TRUE, layout |-> lay]
    ELSE [err |-> "", aggregated |-> FALSE, layout |-> NoLayout,
          commd |-> ZeroPieceCommitment(Unpadded(SectorSize(proof)))]

(***************************************************************************)
(* SpecLayout: the inputs are drawn in the initial state, the one action   *)
(* applies the computation.                                                *)
(***************************************************************************)
NotRun == [err |-> "not run"]

IdleDo ==
    /\ rows = <<>> /\ pieceRows = <<>> /\ head = Null
    /\ att = <<>> /\ owned = <<>> /\ calls = <<>> /\ encoded = <<>>

IdleLayout == lproof = "StackedDrg2KiBV1" /\ lpieces = {} /\ lout = NotRun

IdleAccept == ids = <<>> /\ accepted = [called |-> FALSE, panic |-> FALSE, id |-> Null]

IdleDetails == IsDevnet = FALSE /\ tasks = <<>> /\ details = <<>>

InitLayout ==
    /\ IdleDo
    /\ IdleAccept
    /\ IdleDetails
    /\ lproof \in ProofTypes
    /\ \E I \in SUBSET (0..MaxIndex) :
          /\ Cardinality(I) <= MaxPieces
          /\ \E f \in [I -> PieceAttrs] :
                lpieces = {PieceRow(i, f[i]) : i \in I}
    /\ lout = NotRun

Layout ==
    /\ lout = NotRun
    /\ lout' = ComputeCommD(lproof, OrderByPieceIndex(lpieces))
    /\ UNCHANGED <<lproof, lpieces>>
    /\ UNCHANGED doVars
    /\ UNCHANGED acceptVars
    /\ UNCHANGED detailsVars

NextLayout == Layout

SpecLayout == InitLayout /\ [][NextLayout]_vars

(***************************************************************************)
(* Spec: SDRTask.Do.                                                       *)
(*                                                                         *)
(* An attempt is one invocation Do(taskID, stillOwned).  Its blocking      *)
(* calls (two selects, ChainHead, StateGetRandomnessFromTickets,           *)
(* GenerateSDR, the update) are the points where other attempts and the    *)
(* environment interleave; the code between two calls runs with the call   *)
(* that precedes it.                                                       *)
(***************************************************************************)
TaskIDs  == 1..NumTaskIDs
Attempts == 1..NumAttempts
Sectors  == 1..NumSectors

\* policy.SealRandomnessLookback (the chain finality of the network)
SealRandomnessLookback == 900
InitialHeight == 901

\* the miner of the pipeline rows of the model
MinerID == 1000

DoProofTypes == ProofTypes

\* the sectors of Spec have 2KiB proofs but for at most this many of them
MaxOtherProofs == 1

\* the piece tables a sector of Spec starts from: no piece, or one piece
\* that fills a 2KiB sector (SpecLayout explores the other layouts)
FullPiece == [piece_index |-> 0, piece_cid |-> "baga6ea4seaq",
              piece_size |-> 2048, data_raw_size |-> Some(2032)]
PieceTables == {{}, {FullPiece}}

NewRow(s, proof) ==
    [present |-> TRUE, sp_id |-> MinerID, sector_number |-> s,
     reg_seal_proof |-> proof, task_id_sdr |-> Null, after_sdr |-> FALSE,
     ticket_epoch |-> Null, ticket_value |-> Null]

NotStarted ==
    [pc |-> "idle", taskID |-> 0, nrows |-> Null, nupdated |-> Null,
     sectorParams |-> Null,
     commd |-> Null, aggregated |-> FALSE, ts |-> Null, randReq |-> Null,
     ticketEpoch |-> 0, ticket |-> Null,
     done |-> FALSE, err |-> ""]

InFlight(a) == att[a].pc \notin {"idle", "returned"}

Init ==
    /\ rows \in [Sectors -> {NewRow(s, p) : s \in Sectors, p \in DoProofTypes}]
    /\ \A s \in Sectors : rows[s].sector_number = s
    /\ Cardinality({s \in Sectors : rows[s].reg_seal_proof # "StackedDrg2KiBV1"})
          <= MaxOtherProofs
    /\ pieceRows \in [Sectors -> PieceTables]
    /\ head = [height |-> InitialHeight, key |-> <<"tsk", InitialHeight>>]
    /\ att = [a \in Attempts |-> NotStarted]
    /\ owned = [a \in Attempts |-> TRUE]
    /\ calls = [a \in Attempts |-> <<>>]
    /\ encoded = [s \in Sectors |-> Null]
    /\ IdleLayout
    /\ IdleAccept
    /\ IdleDetails

\* "return false, xerrors.Errorf(...)"
ReturnErr(a, e) == [att[a] EXCEPT !.pc = "returned", !.done = FALSE, !.err = e]

Call(a, name) == [calls EXCEPT ![a] = Append(@, name)]

(***************************************************************************)
(* The environment.                                                        *)
(***************************************************************************)
\* the poller creates an SDR task for a sector that waits for one and binds
\* it to the row; nothing in Do relies on a task id being bound to one row
\* only, which is what the check of line 84 is for
AssignTask(s, t) ==
    /\ rows[s].present
    /\ rows[s].task_id_sdr = Null
    /\ ~rows[s].after_sdr
    /\ rows' = [rows EXCEPT ![s].task_id_sdr = Some(t)]
    /\ UNCHANGED <<pieceRows, head, att, owned, calls, encoded>>
    /\ UNCHANGED otherVars

\* the scheduler runs Do for a task it knows; it runs a second attempt of a
\* task only after the first one has lost its ownership
StartDo(a, t) ==
    /\ att[a].pc = "idle"
    /\ \/ \E s \in Sectors : rows[s].present /\ rows[s].task_id_sdr = Some(t)
       \/ \E b \in Attempts : att[b].pc # "idle" /\ att[b].taskID = t
    /\ \A b \in Attempts : (InFlight(b) /\ att[b].taskID = t) => ~owned[b]
    /\ att' = [att EXCEPT ![a] = [NotStarted EXCEPT !.pc = "selectParams", !.taskID = t]]
    /\ UNCHANGED <<rows, pieceRows, head, owned, calls, encoded>>
    /\ UNCHANGED otherVars

\* the scheduler marks the ownership of a running attempt as lost
LoseOwnership(a) ==
    /\ InFlight(a)
    /\ owned[a]
    /\ owned' = [owned EXCEPT ![a] = FALSE]
    /\ UNCHANGED <<rows, pieceRows, head, att, calls, encoded>>
    /\ UNCHANGED otherVars

\* the operator removes a sector from the pipeline
RemoveSector(s) ==
    /\ rows[s].present
    /\ rows' = [rows EXCEPT ![s].present = FALSE]
    /\ UNCHANGED <<pieceRows, head, att, owned, calls, encoded>>
    /\ UNCHANGED otherVars

\* the chain grows
AdvanceHead ==
    /\ head.height < MaxHeight
    /\ head' = [height |-> head.height + 1, key |-> <<"tsk", head.height + 1>>]
    /\ UNCHANGED <<rows, pieceRows, att, owned, calls, encoded>>
    /\ UNCHANGED otherVars

(***************************************************************************)
(* Do, lines 76-87: the rows bound to the task.                            *)
(***************************************************************************)
SectorParamsOf(t) ==
    {s \in Sectors : rows[s].present /\ rows[s].task_id_sdr = Some(t)}

\* a check that only rejects an empty result
ExpectOne_NonEmpty(n) == n < 1

\* "if len(sectorParamsArr) != 1"
ExpectOne(n) == n # 1

\* a first step that resumes from what an earlier attempt of the task had
\* computed when it failed
DoSelectParams_Resume(a) ==
    /\ att[a].pc = "selectParams"
    /\ calls' = Call(a, "SelectParams")
    /\ \/ att' = [att EXCEPT ![a] = ReturnErr(a, "getting sector params")]
       \/ LET found == SectorParamsOf(att[a].taskID)
              n     == Cardinality(found)
              prior == {b \in Attempts : /\ b # a
                                         /\ att[b].pc = "returned"
                                         /\ att[b].taskID = att[a].taskID
                                         /\ att[b].ticket # Null}
          IN  IF ExpectOne(n)
              THEN att' = [att EXCEPT ![a] =
                              [ReturnErr(a, "expected 1 sector params")
                                  EXCEPT !.nrows = Some(n)]]
              ELSE IF prior # {}
              THEN \E b \in prior :
                      att' = [att EXCEPT ![a] =
                                 [att[b] EXCEPT !.pc = "generateSDR", !.err = "",
                                                !.done = FALSE, !.nupdated = Null]]
              ELSE \E s \in found :
                      att' = [att EXCEPT ![a].pc = "selectPieces", ![a].nrows = Some(n),
                                         ![a].sectorParams =
                                            Some([SpID |-> rows[s].sp_id,
                                                  SectorNumber |-> rows[s].sector_number,
                                                  RegSealProof |-> rows[s].reg_seal_proof])]
    /\ UNCHANGED <<rows, pieceRows, head, owned, encoded>>
    /\ UNCHANGED otherVars

DoSelectParams(a) ==
    /\ att[a].pc = "selectParams"
    /\ calls' = Call(a, "SelectParams")
    /\ \/ att' = [att EXCEPT ![a] = ReturnErr(a, "getting sector params")]
       \/ LET found == SectorParamsOf(att[a].taskID)
              n     == Cardinality(found)
          IN  IF ExpectOne(n)
              THEN att' = [att EXCEPT ![a] =
                              [ReturnErr(a, "expected 1 sector params")
                                  EXCEPT !.nrows = Some(n)]]
              ELSE \E s \in found :
                      att' = [att EXCEPT ![a].pc = "selectPieces", ![a].nrows = Some(n),
                                         ![a].sectorParams =
                                            Some([SpID |-> rows[s].sp_id,
                                                  SectorNumber |-> rows[s].sector_number,
                                                  RegSealProof |-> rows[s].reg_seal_proof])]
    /\ UNCHANGED <<rows, pieceRows, head, owned, encoded>>
    /\ UNCHANGED otherVars

(***************************************************************************)
(* Do, lines 89-169: the pieces of the sector and the commitment.          *)
(***************************************************************************)
PiecesOf(sp) ==
    UNION {pieceRows[s] : s \in {x \in Sectors : /\ MinerID = sp.SpID
                                                 /\ x = sp.SectorNumber}}

DoSelectPieces(a) ==
    /\ att[a].pc = "selectPieces"
    /\ calls' = Call(a, "SelectPieces")
    /\ \/ att' = [att EXCEPT ![a] = ReturnErr(a, "getting pieces")]
       \/ LET sp == att[a].sectorParams[1]
              r  == ComputeCommD(sp.RegSealProof, OrderByPieceIndex(PiecesOf(sp)))
          IN  IF r.err # ""
              THEN att' = [att EXCEPT ![a] = [ReturnErr(a, r.err)
                                                EXCEPT !.aggregated = r.aggregated]]
              ELSE att' = [att EXCEPT ![a].pc = "chainHead", ![a].commd = r.commd,
                                      ![a].aggregated = r.aggregated]
    /\ UNCHANGED <<rows, pieceRows, head, owned, encoded>>
    /\ UNCHANGED otherVars

(***************************************************************************)
(* getTicket, lines 208-226.                                               *)
(***************************************************************************)
\* StateGetRandomnessFromTickets(SealRandomness, epoch, maddr, tsk)
Randomness(epoch, maddr, tsk) == <<"rand", epoch, maddr, tsk>>

\* a ticket epoch taken at the head itself
TicketEpoch_NoLookback(ts) == ts.height

\* "ticketEpoch := ts.Height() - policy.SealRandomnessLookback"
TicketEpoch(ts) == ts.height - SealRandomnessLookback

\* a chain-head query that is asked again when it fails
GetTicketChainHead_Retry(a) ==
    /\ att[a].pc = "chainHead"
    /\ calls' = Call(a, "ChainHead")
    /\ \/ att' = [att EXCEPT ![a].pc = "chainHead"]
       \/ att' = [att EXCEPT ![a].pc = "randomness", ![a].ts = Some(head)]
    /\ UNCHANGED <<rows, pieceRows, head, owned, encoded>>
    /\ UNCHANGED otherVars

GetTicketChainHead(a) ==
    /\ att[a].pc = "chainHead"
    /\ calls' = Call(a, "ChainHead")
    /\ \/ att' = [att EXCEPT ![a] = ReturnErr(a, "getting ticket: getting chain head")]
       \/ att' = [att EXCEPT ![a].pc = "randomness", ![a].ts = Some(head)]
    /\ UNCHANGED <<rows, pieceRows, head, owned, encoded>>
    /\ UNCHANGED otherVars

\* the arguments of the StateGetRandomnessFromTickets call, lines 214-222
RandomnessRequest(a) ==
    LET ts == att[a].ts[1]
    IN  [epoch |-> TicketEpoch(ts), entropy |-> att[a].sectorParams[1].SpID,
         tsk |-> ts.key]

GetTicketRandomness(a) ==
    /\ att[a].pc = "randomness"
    /\ calls' = Call(a, "StateGetRandomnessFromTickets")
    /\ LET req == RandomnessRequest(a)
       IN  \/ att' = [att EXCEPT ![a] =
                        [ReturnErr(a, "getting ticket: getting randomness from tickets")
                            EXCEPT !.randReq = Some(req)]]
           \/ att' = [att EXCEPT ![a].pc = "generateSDR",
                                 ![a].randReq = Some(req),
                                 ![a].ticketEpoch = req.epoch,
                                 ![a].ticket = Some(Randomness(req.epoch, req.entropy,
                                                               req.tsk))]
    /\ UNCHANGED <<rows, pieceRows, head, owned, encoded>>
    /\ UNCHANGED otherVars

(***************************************************************************)
(* Do, lines 188-191: the encoding.                                        *)
(***************************************************************************)
\* s.sc.GenerateSDR(ctx, taskID, sref, ticket, commd) when it succeeds: the
\* layers of the sector sref are written from the ticket and the commitment
Encode(a) ==
    LET sp == att[a].sectorParams[1]
    IN  [s \in Sectors |->
            IF MinerID = sp.SpID /\ s = sp.SectorNumber
            THEN Some([taskID |-> att[a].taskID, ProofType |-> sp.RegSealProof,
                       ticket |-> att[a].ticket[1], commd |-> att[a].commd])
            ELSE encoded[s]]

\* an encoding step that releases the sector when the encoding fails
DoGenerateSDR_ReleaseOnError(a) ==
    /\ att[a].pc = "generateSDR"
    /\ calls' = Call(a, "GenerateSDR")
    /\ \/ /\ att' = [att EXCEPT ![a] = ReturnErr(a, "generating sdr")]
          /\ UNCHANGED encoded
          /\ rows' = [s \in Sectors |->
                        IF s = att[a].sectorParams[1].SectorNumber
                        THEN [rows[s] EXCEPT !.task_id_sdr = Null]
                        ELSE rows[s]]
       \/ /\ att' = [att EXCEPT ![a].pc = "exec"]
          /\ UNCHANGED rows
          /\ encoded' = Encode(a)
    /\ UNCHANGED <<pieceRows, head, owned>>
    /\ UNCHANGED otherVars

DoGenerateSDR(a) ==
    /\ att[a].pc = "generateSDR"
    /\ calls' = Call(a, "GenerateSDR")
    /\ \/ /\ att' = [att EXCEPT ![a] = ReturnErr(a, "generating sdr")]
          /\ UNCHANGED encoded
       \/ /\ att' = [att EXCEPT ![a].pc = "exec"]
          /\ encoded' = Encode(a)
    /\ UNCHANGED <<rows, pieceRows, head, owned>>
    /\ UNCHANGED otherVars

(***************************************************************************)
(* Do, lines 193-205: the update and the return.                           *)
(***************************************************************************)
\* an update that selects by the miner alone
UpdateWhere_AnySector(sp) ==
    {s \in Sectors : rows[s].present /\ rows[s].sp_id = sp.SpID}

\* WHERE sp_id = $1 AND sector_number = $2
UpdateWhere(sp) ==
    {s \in Sectors : /\ rows[s].present
                     /\ rows[s].sp_id = sp.SpID
                     /\ rows[s].sector_number = sp.SectorNumber}

\* an update that leaves the assignment in place
UpdateSet_KeepsTask(row, ticketEpoch, ticket) ==
    [row EXCEPT !.after_sdr = TRUE, !.ticket_epoch = Some(ticketEpoch),
                !.ticket_value = ticket]

\* SET after_sdr = true, ticket_epoch = $3, ticket_value = $4, task_id_sdr = NULL
UpdateSet(row, ticketEpoch, ticket) ==
    [row EXCEPT !.after_sdr = TRUE, !.ticket_epoch = Some(ticketEpoch),
                !.ticket_value = ticket, !.task_id_sdr = Null]

\* a check that only rejects an update of several rows
UpdatedOne_AtMostOne(n) == n <= 1

\* "if n != 1"
UpdatedOne(n) == n = 1

DoExec(a) ==
    /\ att[a].pc = "exec"
    /\ calls' = Call(a, "Exec")
    /\ \/ /\ att' = [att EXCEPT ![a] = ReturnErr(a, "store sdr success: updating pipeline")]
          /\ UNCHANGED rows
       \/ LET hit == UpdateWhere(att[a].sectorParams[1])
              n   == Cardinality(hit)
          IN  /\ rows' = [s \in Sectors |->
                            IF s \in hit
                            THEN UpdateSet(rows[s], att[a].ticketEpoch, att[a].ticket)
                            ELSE rows[s]]
              /\ IF UpdatedOne(n)
                 THEN att' = [att EXCEPT ![a].pc = "returned", ![a].done = TRUE,
                                         ![a].nupdated = Some(n)]
                 ELSE att' = [att EXCEPT ![a] =
                                 [ReturnErr(a, "store sdr success: updated rows")
                                     EXCEPT !.nupdated = Some(n)]]
    /\ UNCHANGED <<pieceRows, head, owned, encoded>>
    /\ UNCHANGED otherVars

Next ==
    \/ \E s \in Sectors, t \in TaskIDs : AssignTask(s, t)
    \/ \E a \in Attempts, t \in TaskIDs : StartDo(a, t)
    \/ \E a \in Attempts : LoseOwnership(a)
    \/ \E s \in Sectors : RemoveSector(s)
    \/ AdvanceHead
    \/ \E a \in Attempts : DoSelectParams(a)
    \/ \E a \in Attempts : DoSelectPieces(a)
    \/ \E a \in Attempts : GetTicketChainHead(a)
    \/ \E a \in Attempts : GetTicketRandomness(a)
    \/ \E a \in Attempts : DoGenerateSDR(a)
    \/ \E a \in Attempts : DoExec(a)

Spec == Init /\ [][Next]_vars

(***************************************************************************)
(* Claims about Do (Spec).                                                 *)
(***************************************************************************)
Last(q) == q[Len(q)]

\* attempt a issues a call in this step
DoStep(a) == calls'[a] # calls[a]

\* attempt a has loaded the record of sector s
Loaded(a, s) ==
    /\ att[a].sectorParams # Null
    /\ att[a].sectorParams[1].SectorNumber = s

Count(q, x) == Cardinality({i \in 1..Len(q) : q[i] = x})

\* the steps 1-5 of Do: everything before the update
Steps1to5 == {"selectParams", "selectPieces", "chainHead", "randomness", "generateSDR"}

\* C1: of two attempts that loaded the same record bound to the same task,
\* at most one returns success from its stage-completion update.
C1_AtMostOneSuccess ==
    \A a, b \in Attempts :
        (a # b /\ att[a].done /\ att[b].done /\ att[a].taskID = att[b].taskID)
            => att[a].sectorParams # att[b].sectorParams

\* C2: a step in which Do returns an error raised in steps 1-5 leaves the
\* pipeline table as it was; unless another attempt has completed the
\* sector, the record the attempt loaded still holds its task id and has
\* neither the flag nor the ticket fields set.
C2_ErrorLeavesRecord ==
    [][\A a \in Attempts :
         (att[a].pc \in Steps1to5 /\ att'[a].pc = "returned")
            => /\ ~att'[a].done /\ att'[a].err # ""
               /\ rows' = rows
               /\ \A s \in Sectors :
                    (Loaded(a, s) /\ rows'[s].present /\ ~rows'[s].after_sdr)
                        => /\ rows'[s].task_id_sdr = Some(att[a].taskID)
                           /\ rows'[s].ticket_epoch = Null
                           /\ rows'[s].ticket_value = Null]_vars

C2_Witness ==
    \E a \in Attempts, s \in Sectors :
        /\ att[a].pc = "returned" /\ att[a].err = "generating sdr"
        /\ Loaded(a, s)
        /\ rows[s].present /\ rows[s].task_id_sdr = Some(att[a].taskID)
        /\ ~rows[s].after_sdr

\* C3: Do returns success only in the step of its one update, when that
\* update hit exactly one row; in the state it leaves, the row has the flag
\* set, the ticket and epoch this attempt resolved, and no assignment.  An
\* update that hits another number of rows makes Do return an error.
C3_SuccessOnlyAfterCommit ==
    [][\A a \in Attempts :
         /\ (att'[a].done /\ ~att[a].done)
              => /\ att[a].pc = "exec"
                 /\ Last(calls'[a]) = "Exec" /\ Count(calls'[a], "Exec") = 1
                 /\ Cardinality(UpdateWhere(att[a].sectorParams[1])) = 1
                 /\ att[a].ticket =
                       Some(Randomness(TicketEpoch(att[a].ts[1]),
                                       att[a].sectorParams[1].SpID, att[a].ts[1].key))
                 /\ att[a].ticketEpoch = TicketEpoch(att[a].ts[1])
                 /\ \A s \in UpdateWhere(att[a].sectorParams[1]) :
                        /\ rows'[s].present
                        /\ rows'[s].after_sdr
                        /\ rows'[s].ticket_value = att[a].ticket
                        /\ rows'[s].ticket_epoch = Some(att[a].ticketEpoch)
                        /\ rows'[s].task_id_sdr = Null
         /\ (att[a].pc = "exec" /\ DoStep(a)
               /\ Cardinality(UpdateWhere(att[a].sectorParams[1])) # 1)
              => /\ att'[a].pc = "returned" /\ ~att'[a].done /\ att'[a].err # ""]_vars

C3_Witness ==
    \E a \in Attempts, s \in Sectors :
        /\ att[a].done /\ Loaded(a, s) /\ att[a].nupdated = Some(1)
        /\ rows[s].present /\ rows[s].after_sdr /\ rows[s].task_id_sdr = Null
        /\ rows[s].ticket_value = att[a].ticket
        /\ rows[s].ticket_epoch = Some(att[a].ticketEpoch)

\* C4: an attempt whose ownership is lost does not invoke the encoding and
\* does not issue the stage-completion update afterwards.
C4_AbortWhenOwnershipLost ==
    [][\A a \in Attempts :
         (~owned[a] /\ DoStep(a)) => Last(calls'[a]) \notin {"GenerateSDR", "Exec"}]_vars

\* C5: once the flag is set with a ticket, no step of Do changes the flag,
\* the ticket value or the ticket epoch of that record, or removes it.
C5_MutatedOnce ==
    [][\A s \in Sectors :
         (rows[s].present /\ rows[s].after_sdr /\ \E a \in Attempts : DoStep(a))
            => /\ rows'[s].present
               /\ rows'[s].after_sdr
               /\ rows'[s].ticket_value = rows[s].ticket_value
               /\ rows'[s].ticket_epoch = rows[s].ticket_epoch]_vars

\* an attempt for sector s is in flight: it runs, and either it has loaded
\* the record of s or its task is the one bound to s
InFlightFor(a, s) ==
    /\ InFlight(a)
    /\ \/ Loaded(a, s)
       \/ att[a].sectorParams = Null /\ rows[s].task_id_sdr = Some(att[a].taskID)

\* C6 as stated: a record has a non-null assignment if and only if an
\* attempt for its sector is in flight.
C6_AssignedIffInFlight ==
    \A s \in Sectors :
        rows[s].present =>
            (rows[s].task_id_sdr # Null <=> \E a \in Attempts : InFlightFor(a, s))

\* C6 as amended: the assignment is cleared by the stage-completion update
\* and by nothing else in Do.  A record that an attempt has loaded, whether
\* the attempt is in flight or has returned, and whose flag is not set still
\* carries the task id of that attempt; a record whose flag is set has no
\* assignment.
C6_AssignedUntilCommit ==
    \A s \in Sectors :
        rows[s].present =>
            /\ \A a \in Attempts :
                  (Loaded(a, s) /\ ~rows[s].after_sdr)
                      => rows[s].task_id_sdr = Some(att[a].taskID)
            /\ rows[s].after_sdr => rows[s].task_id_sdr = Null

C6_Witness ==
    \E a, b \in Attempts, s \in Sectors :
        /\ rows[s].present /\ Loaded(a, s) /\ Loaded(b, s)
        /\ att[a].pc = "returned" /\ ~att[a].done
        /\ InFlight(b)
        /\ rows[s].task_id_sdr = Some(att[b].taskID)

\* C7: when the task is bound to no row or to more than one, Do returns the
\* cardinality error having issued its first select and nothing else.
C7_CardinalityError ==
    \A a \in Attempts :
        (att[a].nrows # Null /\ att[a].nrows # Some(1))
            => /\ att[a].pc = "returned" /\ ~att[a].done
               /\ att[a].err = "expected 1 sector params"
               /\ calls[a] = <<"SelectParams">>
               /\ att[a].sectorParams = Null

C7_Witness ==
    \E a, b \in Attempts :
        /\ att[a].nrows = Some(0) /\ att[a].pc = "returned"
        /\ att[b].nrows = Some(2) /\ att[b].pc = "returned"

(***************************************************************************)
(* SpecAccept: SDRTask.CanAccept(ids, engine).  "id := ids[0]" panics with *)
(* an index out of range when ids is empty.                                *)
(***************************************************************************)
NumCandidates == 3

CandidateLists == UNION {[1..n -> 1..NumCandidates] : n \in 0..MaxIds}

NotCalled == [called |-> FALSE, panic |-> FALSE, id |-> Null]

CanAcceptResult(l) ==
    IF Len(l) = 0
    THEN [called |-> TRUE, panic |-> TRUE, id |-> Null]
    ELSE [called |-> TRUE, panic |-> FALSE, id |-> Some(l[1])]

InitAccept ==
    /\ IdleDo
    /\ IdleLayout
    /\ IdleDetails
    /\ ids \in CandidateLists
    /\ accepted = NotCalled

CanAccept ==
    /\ ~accepted.called
    /\ accepted' = CanAcceptResult(ids)
    /\ UNCHANGED ids
    /\ UNCHANGED doVars
    /\ UNCHANGED layoutVars
    /\ UNCHANGED detailsVars

NextAccept == CanAccept

SpecAccept == InitAccept /\ [][NextAccept]_vars

\* C8: on an empty candidate list CanAccept returns no selection and does
\* not crash; on a non-empty one it returns exactly the first candidate.
C8_CanAcceptFirstOrNone ==
    accepted.called =>
        /\ ~accepted.panic
        /\ ids = <<>> => accepted.id = Null
        /\ ids # <<>> => accepted.id = Some(ids[1])

(***************************************************************************)
(* Piece layout claims (SpecLayout).                                       *)
(***************************************************************************)
LayoutCapacity == Unpadded(SectorSize(lproof))

\* the loop over the pieces ran to its end (no parse error, no panic)
LoopCompleted ==
    /\ lout # NotRun
    /\ lout.err \in {"", "failed to calculate the final padding", "computing CommD"}
    /\ lpieces # {}

\* a well-formed declaration: parseable commitments, power-of-two padded
\* sizes, indices 0..n-1, a raw size that fits the piece
ValidPieces ==
    /\ lpieces # {}
    /\ {r.piece_index : r \in lpieces} = 0..(Cardinality(lpieces) - 1)
    /\ \A r \in lpieces :
          /\ ~CidParseErr(r.piece_cid)
          /\ IsPow2(r.piece_size)
          /\ r.data_raw_size # Null
          /\ r.data_raw_size[1] > 0
          /\ r.data_raw_size[1] <= Unpadded(r.piece_size)

\* C9: for every valid non-empty piece sequence on which the layout
\* succeeds, the padded sizes of the emitted piece infos (pieces, alignment
\* fillers, trailing fillers) add up to the sector capacity exactly, also
\* when a raw size is smaller than the unpadded size of the piece.
C9_EmittedSumIsCapacity ==
    (ValidPieces /\ LoopCompleted /\ lout.aggregated)
        => SumSizes(lout.layout.pieceInfos) = SectorSize(lproof)

\* C10: when the running offset exceeds the unpadded capacity, the layout
\* fails with the layout error, the remaining-space subtraction does not
\* wrap, and nothing is handed to the aggregation.
C10_OverflowIsInvalidLayout ==
    (LoopCompleted /\ lout.layout.offset > LayoutCapacity)
        => /\ lout.err = "failed to calculate the final padding"
           /\ lout.layout.rem = LayoutCapacity - lout.layout.offset
           /\ ~lout.aggregated

\* the position of the i-th emitted entry: the padded sizes before it
PosOf(infos, i) == SumSizes(SubSeq(infos, 1, i - 1))

\* the piece rows fill the sector exactly: their padded sizes add up to the
\* capacity and each piece starts at a multiple of its own padded size
ExactFill ==
    /\ ValidPieces
    /\ ~SectorSizeErr(lproof)
    /\ LET ps == OrderByPieceIndex(lpieces)
           sz == [i \in 1..Len(ps) |-> [Size |-> ps[i].piece_size]]
       IN  /\ SumSizes(sz) = SectorSize(lproof)
           /\ \A i \in 1..Len(ps) : PosOf(sz, i) % ps[i].piece_size = 0

\* the piece infos of the rows themselves, in index order
RealInfos ==
    LET ps == OrderByPieceIndex(lpieces)
    IN  [i \in 1..Len(ps) |-> [Size |-> ps[i].piece_size, PieceCID |-> ps[i].piece_cid]]

\* C15: for a non-empty piece sequence that fills the sector exactly with
\* power-of-two alignment, the commitment computation ends without error,
\* and its result is the aggregate of the proof type and the pieces alone.
C15_ExactFillSucceeds ==
    (ExactFill /\ lout # NotRun)
        => /\ lout.err = ""
           /\ lout.commd = <<"commd", lproof, RealInfos>>

\* C16: a declaration with a padded size that is not a power of two, or
\* with piece indices other than 0, 1, ..., n-1, makes the computation fail
\* (any error is taken for the layout error here).
C16_MalformedIsRejected ==
    (/\ lout # NotRun
     /\ lpieces # {}
     /\ \/ \E r \in lpieces : ~IsPow2(r.piece_size)
        \/ {r.piece_index : r \in lpieces} # 0..(Cardinality(lpieces) - 1))
        => lout.err # ""

\* C17: in the emitted sequence every piece starts at a multiple of its own
\* padded size, every filler has a power-of-two size, and the pieces come
\* in strictly increasing index order (stated of the sequences the layout
\* completes and hands to the aggregation).
C17_EmittedAligned ==
    (ValidPieces /\ LoopCompleted /\ lout.aggregated)
        => LET infos == lout.layout.pieceInfos
           IN  \A i \in 1..Len(infos) :
                  /\ infos[i].filler => IsPow2(infos[i].Size)
                  /\ ~infos[i].filler => PosOf(infos, i) % infos[i].Size = 0
                  /\ \A j \in 1..Len(infos) :
                        (i < j /\ ~infos[i].filler /\ ~infos[j].filler)
                            => infos[i].piece_index < infos[j].piece_index

(***************************************************************************)
(* Claims about the commitment, the ticket and the calls of Do (Spec).     *)
(***************************************************************************)
EmptySector(a) ==
    /\ att[a].sectorParams # Null
    /\ PiecesOf(att[a].sectorParams[1]) = {}

AllFiller(proof) == ZeroPieceCommitment(Unpadded(SectorSize(proof)))

\* C11: an attempt for a sector with no piece records does not invoke the
\* aggregation, the commitment it computes is the all-filler commitment for
\* the capacity of the sector, and that is the commitment the encoding of
\* such a sector is called with, whatever the proof type.
C11_EmptySectorAllFiller ==
    /\ \A a \in Attempts :
          EmptySector(a) =>
             /\ ~att[a].aggregated
             /\ att[a].commd # Null =>
                   att[a].commd = AllFiller(att[a].sectorParams[1].RegSealProof)
    /\ \A s \in Sectors :
          (pieceRows[s] = {} /\ encoded[s] # Null) =>
             encoded[s][1].commd = AllFiller(encoded[s][1].ProofType)

C11_Witness ==
    \E s, u \in Sectors :
        /\ pieceRows[s] = {} /\ encoded[s] # Null
        /\ encoded[s][1].ProofType = "StackedDrg2KiBV1"
        /\ encoded[s][1].commd = <<"zerocomm", 2032>>
        /\ pieceRows[u] = {} /\ encoded[u] # Null
        /\ encoded[u][1].ProofType = "StackedDrg8MiBV1"
        /\ encoded[u][1].commd = <<"zerocomm", 8323072>>

\* C12: with a chain head of height H, the randomness is requested for the
\* epoch H - SealRandomnessLookback and for the tipset key of that head, and
\* a commit stores that epoch and the ticket drawn for it.
C12_TicketAtLookback ==
    [][\A a \in Attempts :
          DoStep(a) =>
             /\ att'[a].randReq # Null =>
                   /\ att'[a].randReq[1].epoch =
                         att'[a].ts[1].height - SealRandomnessLookback
                   /\ att'[a].randReq[1].epoch # att'[a].ts[1].height
                   /\ att'[a].randReq[1].tsk = att'[a].ts[1].key
             /\ att'[a].done =>
                   \A s \in Sectors :
                      Loaded(a, s) =>
                         /\ rows'[s].ticket_epoch =
                               Some(att[a].ts[1].height - SealRandomnessLookback)
                         /\ rows'[s].ticket_value =
                               Some(Randomness(att[a].ts[1].height
                                                  - SealRandomnessLookback,
                                               att[a].sectorParams[1].SpID,
                                               att[a].ts[1].key))]_vars

\* the head has moved on since the attempt read it
C12_Witness ==
    \E a \in Attempts, s \in Sectors :
        /\ att[a].done /\ Loaded(a, s)
        /\ att[a].ts[1].height = InitialHeight
        /\ head.height > InitialHeight
        /\ rows[s].ticket_epoch = Some(InitialHeight - SealRandomnessLookback)

CallOrder ==
    <<"SelectParams", "SelectPieces", "ChainHead",
      "StateGetRandomnessFromTickets", "GenerateSDR", "Exec">>

IsPrefix(p, q) == Len(p) <= Len(q) /\ SubSeq(q, 1, Len(p)) = p

\* C13: an attempt issues its calls at most once each and in the order of
\* the code, the first error ends it with that error, and an attempt that
\* has returned issues no call.
C13_NoInternalRetry ==
    [][\A a \in Attempts :
          /\ IsPrefix(calls'[a], CallOrder)
          /\ att[a].pc = "returned" => ~DoStep(a)
          /\ (DoStep(a) /\ att'[a].err # "") =>
                /\ att'[a].pc = "returned"
                /\ ~att'[a].done]_vars

C13_Witness ==
    \E a, b \in Attempts :
        /\ att[a].pc = "returned"
        /\ att[a].err = "getting ticket: getting chain head"
        /\ calls[a] = SubSeq(CallOrder, 1, 3)
        /\ att[b].pc = "returned"
        /\ att[b].err = "generating sdr"
        /\ calls[b] = SubSeq(CallOrder, 1, 5)

\* C14: an attempt that succeeds has issued every call itself, whatever the
\* attempts before it did: the commitment it encodes with is the one of the
\* pieces of the sector, and the record it leaves is the new record with the
\* flag set, the assignment cleared and the ticket of its own chain head.
C14_NoCheckpoint ==
    [][\A a \in Attempts :
          (DoStep(a) /\ att'[a].done) =>
             /\ calls'[a] = CallOrder
             /\ LET sp == att[a].sectorParams[1]
                    ts == att[a].ts[1]
                IN  /\ att[a].commd =
                          ComputeCommD(sp.RegSealProof,
                                       OrderByPieceIndex(PiecesOf(sp))).commd
                    /\ rows'[sp.SectorNumber] =
                          [NewRow(sp.SectorNumber, sp.RegSealProof) EXCEPT
                              !.after_sdr = TRUE,
                              !.ticket_epoch = Some(TicketEpoch(ts)),
                              !.ticket_value =
                                  Some(Randomness(TicketEpoch(ts), sp.SpID, ts.key))]]_vars

\* an attempt failed at the encoding and returned, then a later attempt of
\* the same task succeeded with a later chain head
C14_Witness ==
    \E a, b \in Attempts :
        /\ a # b /\ att[a].taskID = att[b].taskID
        /\ att[b].pc = "returned" /\ att[b].err = "generating sdr" /\ owned[b]
        /\ att[a].done
        /\ att[a].ts[1].height > att[b].ts[1].height
        /\ att[a].ticket # att[b].ticket

\* C19: the ticket value and the ticket epoch of a record with the flag set
\* are those of the last encoding that succeeded for its sector.
C19_StoredTicketIsEncoded ==
    \A s \in Sectors :
        (rows[s].present /\ rows[s].after_sdr) =>
            /\ encoded[s] # Null
            /\ rows[s].ticket_value = Some(encoded[s][1].ticket)
            /\ rows[s].ticket_epoch = Some(encoded[s][1].ticket[2])

\* C20: a step of Do leaves the piece records alone, and leaves alone every
\* pipeline record but the one the attempt has loaded.
C20_OnlyLoadedRecordChanges ==
    [][\A a \in Attempts :
          DoStep(a) =>
             /\ pieceRows' = pieceRows
             /\ \A s \in Sectors : ~Loaded(a, s) => rows'[s] = rows[s]]_vars

C20_Witness ==
    \E a \in Attempts, s, u \in Sectors :
        /\ att[a].done /\ Loaded(a, s) /\ rows[s].after_sdr
        /\ u # s /\ rows[u].present /\ ~rows[u].after_sdr
        /\ rows[u].task_id_sdr # Null /\ rows[u].ticket_value = Null
        /\ pieceRows[s] # {} /\ pieceRows[u] # {}

(***************************************************************************)
(* SpecDetails: IsDevnet, SetDevnet, NewSDRTask and SDRTask.TypeDetails.   *)
(* Sizes are counted in MiB.                                               *)
(***************************************************************************)
NumInstances == 2
MaxSDR == 2

Instances == 1..NumInstances

\* 1 << 30 bytes, in MiB
GiB == 1024

\* s.sc.Storage(s.taskToSector, FTCache, FTNone, ssize, PathSealing,
\*              MinFreeStoragePercentage)
Storage(ssize) ==
    [alloc |-> "FTCache", existing |-> "FTNone", ssize |-> ssize,
     pathType |-> "PathSealing"]

\* the descriptor built by TypeDetails for the task s, lines 233-258
TypeDetailsOf(s) ==
    LET ssize == IF IsDevnet THEN 2 ELSE 32 * GiB
        res   == [Max |-> s.max, Name |-> "SDR",
                  Cost |-> [Cpu |-> 4, Gpu |-> 0, Ram |-> (64 * GiB) + 256,
                            Storage |-> Storage(ssize)],
                  MaxFailures |-> 2, Follows |-> Null]
    IN  IF IsDevnet
        THEN [res EXCEPT !.Cost.Ram = 1 * GiB, !.Cost.Cpu = 1]
        ELSE res

\* "var IsDevnet = build.BlockDelaySecs < 30": either value, by the build
InitDetails ==
    /\ IdleDo
    /\ IdleLayout
    /\ IdleAccept
    /\ IsDevnet \in BOOLEAN
    /\ tasks = [i \in Instances |-> Null]
    /\ details = [i \in Instances |-> Null]

SetDevnet(value) ==
    /\ IsDevnet' = value
    /\ UNCHANGED <<tasks, details>>
    /\ UNCHANGED <<doVars, layoutVars, acceptVars>>

\* devnetAtNew is history, no field of SDRTask: IsDevnet when the task was
\* constructed
NewSDRTask(i, maxSDR) ==
    /\ tasks[i] = Null
    /\ tasks' = [tasks EXCEPT ![i] = Some([max |-> maxSDR, devnetAtNew |-> IsDevnet])]
    /\ UNCHANGED <<IsDevnet, details>>
    /\ UNCHANGED <<doVars, layoutVars, acceptVars>>

TypeDetails(i) ==
    /\ tasks[i] # Null
    /\ details' = [details EXCEPT ![i] = Some(TypeDetailsOf(tasks[i][1]))]
    /\ UNCHANGED <<IsDevnet, tasks>>
    /\ UNCHANGED <<doVars, layoutVars, acceptVars>>

NextDetails ==
    \/ \E value \in BOOLEAN : SetDevnet(value)
    \/ \E i \in Instances, maxSDR \in 1..MaxSDR : NewSDRTask(i, maxSDR)
    \/ \E i \in Instances : TypeDetails(i)

SpecDetails == InitDetails /\ [][NextDetails]_vars

\* C18: what TypeDetails reports for a task is the capacity, the CPU and the
\* memory of the network profile that was in force when the task was
\* constructed, whatever SetDevnet did since; in both profiles it declares
\* two maximum failures and no follow-up task.
C18_ProfileFixedAtConstruction ==
    \A i \in Instances :
        details[i] # Null =>
            LET d == details[i][1]
            IN  /\ IF tasks[i][1].devnetAtNew
                   THEN /\ d.Cost.Storage.ssize = 2
                        /\ d.Cost.Cpu = 1
                        /\ d.Cost.Ram = GiB
                   ELSE /\ d.Cost.Storage.ssize = 32 * GiB
                        /\ d.Cost.Cpu = 4
                        /\ d.Cost.Ram = (64 * GiB) + 256
                /\ d.MaxFailures = 2
                /\ d.Follows = Null

====
